---- MODULE Spec2Model ----
(***************************************************************************)
(* Model of the fmriprep QC page builders:                                 *)
(*   build_fmriprep_qc.py : gen_anatomical_qc, get_func_svg, make_fc_html, *)
(*                          gen_functional_qc                              *)
(*   fast_qc_fmriprep.py  : get_broad_qc, make_broad_html,                 *)
(*                          get_task_ordering_key, make_task_html, main    *)
(* Strings are sequences of one-character strings, so that substring       *)
(* tests (`x in f`), str.split and '{}'.format are computed as Python      *)
(* computes them.                                                          *)
(***************************************************************************)
EXTENDS Integers, Sequences, FiniteSets, TLC

VARIABLES
    prog,        \* the entry point that runs in this behaviour
    pc,          \* position of the run: "loop", "paginate", "done", "crashed"
    subjects,    \* gen_anatomical_qc / main: the subjects, in index order
    nofig,       \* subjects whose figures directory lacks the brainmask figure
    keywords,    \* gen_anatomical_qc: <<keyword>>; gen_functional_qc: keywords
    taskfiles,   \* gen_functional_qc: the task files; main: per subject
    reversed,    \* whether os.listdir returns the figures in reverse order
    svg_tups,    \* make_fc_html: its input list of (filename, svg) tuples
    i,           \* loop index of the running for-loop (0-based, as enumerate)
    html,        \* rows buffered for the page being built
    page_num,    \* number of the next page to write
    files,       \* page files written so far, in write order
    missing_svg, \* units recorded as having no matching figure
    task,        \* gen_functional_qc: the task whose files are reviewed
    map_tuples,  \* gen_functional_qc: tuples collected so far
    task_htmls   \* main: the task pages of the subject handled last

vars == <<prog, pc, subjects, nofig, keywords, taskfiles, reversed, svg_tups,
          i, html, page_num, files, missing_svg, task, map_tuples, task_htmls>>

----------------------------------------------------------------------------
(* Bounds of the model *)

MaxRows == 41       \* most rows / subjects fed to a paginated sequence
MaxSubjects == 2    \* most subjects in the chained review
MaxTasks == 2       \* most task files listed for one subject or one task

(* build_fmriprep_qc.py:25 *)
FIGSPERPAGE == 20

----------------------------------------------------------------------------
(* Python string primitives over sequences of characters *)

None == <<"<None>">>

\* p == s[k : k+len(p)]  (k 1-based)
MatchAt(p, s, k) ==
    /\ k + Len(p) - 1 <= Len(s)
    /\ \A j \in 1..Len(p) : s[k + j - 1] = p[j]

\* `p in s` for strings
Contains(p, s) == \E k \in 1..(Len(s) + 1) : MatchAt(p, s, k)

\* s.find(p), 1-based; 0 when absent
Find(p, s) ==
    IF Contains(p, s)
    THEN CHOOSE k \in 1..(Len(s) + 1) :
            /\ MatchAt(p, s, k)
            /\ \A j \in 1..(k - 1) : ~MatchAt(p, s, j)
    ELSE 0

\* s.split(c) for a one-character separator c
RECURSIVE Split(_, _)
Split(s, c) ==
    LET k == Find(<<c>>, s)
    IN  IF k = 0 THEN <<s>>
        ELSE <<SubSeq(s, 1, k - 1)>> \o Split(SubSeq(s, k + 1, Len(s)), c)

\* `x in lst` for lists
InList(x, lst) == \E k \in 1..Len(lst) : lst[k] = x

Reverse(lst) == [k \in 1..Len(lst) |-> lst[Len(lst) + 1 - k]]

Digit(d) == <<"0", "1", "2", "3", "4", "5", "6", "7", "8", "9">>[d + 1]

\* str(n) / '{}'.format(n) for an integer
RECURSIVE StrNat(_)
StrNat(n) == IF n < 10 THEN <<Digit(n)>> ELSE StrNat(n \div 10) \o <<Digit(n % 10)>>

Str(n) == IF n < 0 THEN <<"-">> \o StrNat(0 - n) ELSE StrNat(n)

\* '{}.html'.format(x)
HtmlName(x) == x \o <<".", "h", "t", "m", "l">>

----------------------------------------------------------------------------
(* File names of the fmriprep derivatives tree *)

Us == <<"_">>
SubPfx == <<"s", "u", "b", "-">>
SesPfx == <<"s", "e", "s", "-">>
TaskPfx == <<"t", "a", "s", "k", "-">>
RunPfx == <<"r", "u", "n", "-">>
SvgExt == <<".", "s", "v", "g">>
SpaceSuffix ==
    <<"_", "s", "p", "a", "c", "e", "-", "T", "1", "w", "_", "b", "o", "l", "d",
      ".", "n", "i", "i", ".", "g", "z">>

KwBrainmask == <<"_", "s", "e", "g", "_", "b", "r", "a", "i", "n", "m", "a", "s", "k">>
KwMni == <<"t", "1", "_", "2", "_", "m", "n", "i">>
KwFmapMask == <<"f", "m", "a", "p", "_", "m", "a", "s", "k">>
KwFmapReg == <<"f", "m", "a", "p", "_", "r", "e", "g", ".", "s", "v", "g">>
KwSdc == <<"s", "d", "c">>
KwBbregister == <<"b", "b", "r", "e", "g", "i", "s", "t", "e", "r">>
KwCoreg == <<"c", "o", "r", "e", "g">>
KwSpace == <<"_", "s", "p", "a", "c", "e">>

Rest == <<"r", "e", "s", "t">>
Nback == <<"n", "b", "a", "c", "k">>
Ses1 == <<"1">>
NoRun == 0      \* stands for a file name with no run entity (runs start at 1)

\* sub-<s>_T1w_seg_brainmask.svg and sub-<s>_T1w_t1_2_mni.svg
BrainmaskFig(s) == SubPfx \o s \o <<"_", "T", "1", "w">> \o KwBrainmask \o SvgExt
MniFig(s) == SubPfx \o s \o <<"_", "T", "1", "w", "_">> \o KwMni \o SvgExt

\* sub-<s>_ses-<ses>_task-<task>[_run-<run>]
BidsBaseOf(s, ses, tsk, run) ==
    SubPfx \o s \o Us \o SesPfx \o ses \o Us \o TaskPfx \o tsk
    \o (IF run = NoRun THEN <<>> ELSE Us \o RunPfx \o Str(run))

\* a BIDSFile of the dataset index: its filename and its entities
TaskFile(s, ses, tsk, run) ==
    [filename |-> BidsBaseOf(s, ses, tsk, run) \o SpaceSuffix,
     entities |-> IF run = NoRun
                  THEN [subject |-> s, session |-> ses, task |-> tsk]
                  ELSE [subject |-> s, session |-> ses, task |-> tsk, run |-> run]]

\* <bids base>_<figure type>.svg
TaskFig(s, ses, tsk, run, figtype) ==
    BidsBaseOf(s, ses, tsk, run) \o Us \o figtype \o SvgExt

\* os.listdir(figdir) of the anatomical run: a subject in nofig has no
\* brainmask figure
AnatListing(s) ==
    (IF s \in nofig THEN <<>> ELSE <<BrainmaskFig(s)>>) \o <<MniFig(s)>>

\* os.listdir(figdir) of a subject with functional figures, in either order
FuncListing(s) ==
    LET l == << BrainmaskFig(s), MniFig(s),
                TaskFig(s, Ses1, Rest, 1, KwSdc),
                TaskFig(s, Ses1, Rest, 1, KwBbregister),
                TaskFig(s, Ses1, Rest, 10, KwSdc),
                TaskFig(s, Ses1, Nback, NoRun, KwSdc) >>
    IN  IF reversed THEN Reverse(l) ELSE l

\* ids of the subjects of the dataset index
SubjectId(k) == <<<<"A">>, <<"B">>, <<"C">>, <<"D">>>>[k]

\* sequences of distinct elements of S, of length at most n
DistinctSeqs(S, n) ==
    UNION {{q \in [1..m -> S] : \A a, b \in 1..m : a # b => q[a] # q[b]} : m \in 0..n}

----------------------------------------------------------------------------
(* Pages and links *)

NextPage == "Next Page"
PreviousPage == "Previous Page"
NextSubject == "Next Subject"

\* '<td><a href="./{}">{}</a></td>'.format(pg, text)
add_link(pg, text) == [href |-> pg, text |-> text]

\* add_image_row(tag, svg): a label line and one embedded image
add_image_row(tag, svg) == [tag |-> tag, svgs |-> <<svg>>]

\* os.path.join(figdir, svg) for the figures directory of subject s
FigPath(s, svg) == [dir |-> s, file |-> svg]

\* a page file written before its links are computed: the rows alone
WriteFile_BeforeLinks(fs, name, rows, links) ==
    LET Other(f) == f.name # name
    IN  Append(SelectSeq(fs, Other), [name |-> name, rows |-> rows, links |-> <<>>])

\* with open(page, 'w') as f: f.writelines(...): a later write of the same
\* name replaces the earlier file
WriteFile(fs, name, rows, links) ==
    LET Other(f) == f.name # name
    IN  Append(SelectSeq(fs, Other), [name |-> name, rows |-> rows, links |-> links])

\* the page-closing test of the pagination loops, at index idx of n items
PageBoundary(idx, n) ==
    \/ (idx # 0 /\ idx % FIGSPERPAGE = 0)
    \/ idx = n - 1

\* the footer links of the page closed at index idx: prev_pg then nxt_pg
Footer(idx, n, pnum) ==
    (IF idx - FIGSPERPAGE > 0
     THEN <<add_link(HtmlName(Str(pnum - 1)), PreviousPage)>> ELSE <<>>)
    \o
    (IF idx + FIGSPERPAGE <= n
     THEN <<add_link(HtmlName(Str(pnum + 1)), NextPage)>> ELSE <<>>)

----------------------------------------------------------------------------
(* build_fmriprep_qc.py: make_fc_html *)

\* one iteration of `for i,t in enumerate(svg_tups)`
FcStep ==
    /\ pc = "paginate"
    /\ i < Len(svg_tups)
    /\ LET t == svg_tups[i + 1]
           n == Len(svg_tups)
           row == add_image_row(t[1], t[2])
       IN  IF PageBoundary(i, n)
           THEN /\ files' = WriteFile(files, HtmlName(Str(page_num)), html,
                                      Footer(i, n, page_num))
                /\ html' = <<row>>
                /\ page_num' = page_num + 1
           ELSE /\ html' = Append(html, row)
                /\ UNCHANGED <<files, page_num>>
    /\ i' = i + 1
    /\ UNCHANGED <<prog, pc, subjects, nofig, keywords, taskfiles, reversed,
                   svg_tups, missing_svg, task, map_tuples, task_htmls>>

\* the loop is exhausted: return
FcReturn ==
    /\ pc = "paginate"
    /\ i = Len(svg_tups)
    /\ pc' = "done"
    /\ UNCHANGED <<prog, subjects, nofig, keywords, taskfiles, reversed, svg_tups,
                   i, html, page_num, files, missing_svg, task, map_tuples,
                   task_htmls>>

----------------------------------------------------------------------------
(* build_fmriprep_qc.py: gen_anatomical_qc *)

\* [f for f in svgs if keyword in f]
KeywordMatches(keyword, svgs) ==
    LET Has(f) == Contains(keyword, f) IN SelectSeq(svgs, Has)

\* one iteration of `for i,s in enumerate(subjects)`
AnatStep ==
    /\ prog = "gen_anatomical_qc"
    /\ pc = "loop"
    /\ i < Len(subjects)
    /\ LET s == subjects[i + 1]
           n == Len(subjects)
           found == KeywordMatches(keywords[1], AnatListing(s))
       IN  IF found = <<>>
           THEN /\ missing_svg' = Append(missing_svg, s)
                /\ UNCHANGED <<files, html, page_num>>
           ELSE LET row == add_image_row(s, FigPath(s, found[1]))
                IN  /\ IF PageBoundary(i, n)
                       THEN /\ files' = WriteFile(files, HtmlName(Str(page_num)),
                                                  html, Footer(i, n, page_num))
                            /\ html' = <<row>>
                            /\ page_num' = page_num + 1
                       ELSE /\ html' = Append(html, row)
                            /\ UNCHANGED <<files, page_num>>
                    /\ UNCHANGED missing_svg
    /\ i' = i + 1
    /\ UNCHANGED <<prog, pc, subjects, nofig, keywords, taskfiles, reversed,
                   svg_tups, task, map_tuples, task_htmls>>

AnatReturn ==
    /\ prog = "gen_anatomical_qc"
    /\ pc = "loop"
    /\ i = Len(subjects)
    /\ pc' = "done"
    /\ UNCHANGED <<prog, subjects, nofig, keywords, taskfiles, reversed, svg_tups,
                   i, html, page_num, files, missing_svg, task, map_tuples,
                   task_htmls>>

----------------------------------------------------------------------------
(* build_fmriprep_qc.py: get_func_svg, gen_functional_qc *)

\* the test of one candidate f in get_func_svg
FuncSvgAccepts(sub, ses, tsk, run, figtype, f) ==
    LET splitted == Split(Split(f, ".")[1], "_")
        sub_in == InList(SubPfx \o sub, splitted)
        ses_in == InList(SesPfx \o ses, splitted)
        task_in == InList(TaskPfx \o tsk, splitted)
        run_in == IF run # NoRun
                  THEN \/ InList(RunPfx \o Str(run), splitted)
                       \/ InList(RunPfx \o <<"0">> \o Str(run), splitted)
                  ELSE TRUE
        figtype_in == InList(figtype, splitted)
    IN  sub_in /\ ses_in /\ task_in /\ run_in /\ figtype_in

\* the first accepted candidate of flist, None when the loop falls through
get_func_svg(sub, ses, tsk, run, figtype, flist) ==
    LET Ok(f) == FuncSvgAccepts(sub, ses, tsk, run, figtype, f)
        hits == SelectSeq(flist, Ok)
    IN  IF hits = <<>> THEN None ELSE hits[1]

\* try: run = f.entities['run']  except KeyError: run = False
RunOf(f) == IF "run" \in DOMAIN f.entities THEN f.entities.run ELSE NoRun

\* one iteration of `for f in taskfiles`
FuncStep ==
    /\ prog = "gen_functional_qc"
    /\ pc = "loop"
    /\ i < Len(taskfiles)
    /\ LET f == taskfiles[i + 1]
           sub == f.entities.subject
           ses == f.entities.session
           svgs == FuncListing(sub)
           found == [k \in 1..Len(keywords) |->
                        get_func_svg(sub, ses, task, RunOf(f), keywords[k], svgs)]
       IN  IF found = <<>>
           THEN \* IndexError: record the file and continue
                /\ missing_svg' = Append(missing_svg, f)
                /\ i' = i + 1
                /\ UNCHANGED <<pc, map_tuples>>
           ELSE IF found[1] = None
           THEN \* os.path.join(figdir, None) raises TypeError
                /\ pc' = "crashed"
                /\ UNCHANGED <<i, missing_svg, map_tuples>>
           ELSE /\ map_tuples' = Append(map_tuples,
                                        <<f.filename, FigPath(sub, found[1])>>)
                /\ i' = i + 1
                /\ UNCHANGED <<pc, missing_svg>>
    /\ UNCHANGED <<prog, subjects, nofig, keywords, taskfiles, reversed, svg_tups,
                   html, page_num, files, task, task_htmls>>

\* make_fc_html(map_tuples, output) after the loop
FuncPaginate ==
    /\ prog = "gen_functional_qc"
    /\ pc = "loop"
    /\ i = Len(taskfiles)
    /\ svg_tups' = map_tuples
    /\ pc' = "paginate"
    /\ i' = 0
    /\ html' = <<>>
    /\ page_num' = 0
    /\ UNCHANGED <<prog, subjects, nofig, keywords, taskfiles, reversed, files,
                   missing_svg, task, map_tuples, task_htmls>>

----------------------------------------------------------------------------
(* fast_qc_fmriprep.py: the chained review *)

\* Python's ordering of characters (code points), for the characters used
Alphabet ==
    <<"-", ".", "0", "1", "2", "3", "4", "5", "6", "7", "8", "9", "A", "B", "C",
      "D", "T", "_", "a", "b", "c", "d", "e", "f", "g", "h", "i", "k", "l", "m",
      "n", "o", "p", "r", "s", "t", "u", "v", "w", "z">>

Ord(c) == CHOOSE k \in 1..Len(Alphabet) : Alphabet[k] = c

\* a < b for strings
StrLess(a, b) ==
    \E k \in 1..(Len(b)) :
        /\ \A j \in 1..(k - 1) : j <= Len(a) /\ a[j] = b[j]
        /\ \/ k = Len(a) + 1
           \/ (k <= Len(a) /\ Ord(a[k]) < Ord(b[k]))

\* get_task_ordering_key with the run of a file without run sorting first
get_task_ordering_key_RunZero(bidsfile) ==
    LET entities == bidsfile.entities
    IN  <<entities.task,
          IF "run" \in DOMAIN entities THEN entities.run ELSE 0>>

\* get_task_ordering_key(bidsfile): (task, run), run '1' when absent
get_task_ordering_key(bidsfile) ==
    LET entities == bidsfile.entities
    IN  <<entities.task,
          IF "run" \in DOMAIN entities THEN entities.run ELSE 1>>

\* k1 < k2 for (task, run) tuples
KeyLess(k1, k2) ==
    \/ StrLess(k1[1], k2[1])
    \/ (k1[1] = k2[1] /\ k1[2] < k2[2])

\* sorted(lst, key=get_task_ordering_key): a stable sort
RECURSIVE SortedByKey(_)
SortedByKey(lst) ==
    IF lst = <<>> THEN <<>>
    ELSE LET x == lst[Len(lst)]
             front == SortedByKey(SubSeq(lst, 1, Len(lst) - 1))
             NotAfter(y) == ~KeyLess(get_task_ordering_key(x), get_task_ordering_key(y))
             After(y) == KeyLess(get_task_ordering_key(x), get_task_ordering_key(y))
         IN  SelectSeq(front, NotAfter) \o <<x>> \o SelectSeq(front, After)

\* get_broad_qc(sub_figs): (brainmask + mni + mag, desc)
get_broad_qc(sub_figs) ==
    [svgs |-> KeywordMatches(KwBrainmask, sub_figs)
              \o KeywordMatches(KwMni, sub_figs)
              \o KeywordMatches(KwFmapMask, sub_figs),
     desc |-> <<"brainmask", "t12mni", "magnitude mask">>]

\* make_broad_html: the title line, then one row per zip(svgs, desc)
make_broad_html(sub, sub_figs) ==
    LET q == get_broad_qc(sub_figs)
        m == IF Len(q.svgs) < Len(q.desc) THEN Len(q.svgs) ELSE Len(q.desc)
    IN  <<[tag |-> SubPfx \o sub, svgs |-> <<>>]>>
        \o [k \in 1..m |-> [tag |-> q.desc[k], svgs |-> <<FigPath(sub, q.svgs[k])>>]]

\* re.compile('.*?(?=_space)').findall(filename)[0]; None on IndexError
BidsBase(filename) ==
    LET k == Find(KwSpace, filename)
    IN  IF k = 0 THEN None ELSE SubSeq(filename, 1, k - 1)

\* [f for f in sub_figs if bidsbase in f]
TaskFigs(bidsbase, sub_figs) ==
    LET Has(f) == Contains(bidsbase, f) IN SelectSeq(sub_figs, Has)

\* the first figure of each kind, when there is one: fmap, sdc, epi-->T1
FirstFmap(task_figs) ==
    LET Has(f) == Contains(KwFmapReg, f)
        hits == SelectSeq(task_figs, Has)
    IN  IF hits = <<>> THEN <<>> ELSE <<hits[1]>>

FirstSdc(task_figs) ==
    LET Has(f) == Contains(KwSdc, f)
        hits == SelectSeq(task_figs, Has)
    IN  IF hits = <<>> THEN <<>> ELSE <<hits[1]>>

FirstEpi2t1(task_figs) ==
    LET Has(f) == Contains(KwBbregister, f) \/ Contains(KwCoreg, f)
        hits == SelectSeq(task_figs, Has)
    IN  IF hits = <<>> THEN <<>> ELSE <<hits[1]>>

\* the None that make_task_html returns, as a value comparable with pages
NoPage == [name |-> None, rows |-> <<>>, links |-> <<>>]

\* make_task_html: [bidsbase + '.html', html], or None
make_task_html(sub, sub_figs, task_file) ==
    LET bidsbase == BidsBase(task_file.filename)
        task_figs == TaskFigs(bidsbase, sub_figs)
        svgs == FirstFmap(task_figs) \o FirstSdc(task_figs) \o FirstEpi2t1(task_figs)
    IN  IF bidsbase = None THEN NoPage
        ELSE [name |-> HtmlName(bidsbase),
              rows |-> <<[tag |-> task_file.filename,
                          svgs |-> [k \in 1..Len(svgs) |-> FigPath(sub, svgs[k])]]>>,
              links |-> <<>>]

\* '{}_sub-{}.html'.format(ind, s)
BroadName(ind, s) == HtmlName(Str(ind) \o Us \o SubPfx \o s)

\* Steps 2-5 without Step 2, the link from the first task page to the broad page
TaskLinks_NoBack(pages, k, ind, broad_name) ==
    (IF k > 1 THEN <<add_link(pages[k - 1].name, PreviousPage)>> ELSE <<>>)
    \o (IF k < Len(pages) THEN <<add_link(pages[k + 1].name, NextPage)>> ELSE <<>>)
    \o (IF k = Len(pages) /\ ind # Len(subjects) - 1
        THEN <<add_link(BroadName(ind + 1, subjects[ind + 2]), NextPage)>>
        ELSE <<>>)

\* Steps 2-5 on the task pages: the links appended to task page k of pages
TaskLinks(pages, k, ind, broad_name) ==
    (IF k = 1 THEN <<add_link(broad_name, PreviousPage)>> ELSE <<>>)
    \o (IF k > 1 THEN <<add_link(pages[k - 1].name, PreviousPage)>> ELSE <<>>)
    \o (IF k < Len(pages) THEN <<add_link(pages[k + 1].name, NextPage)>> ELSE <<>>)
    \o (IF k = Len(pages) /\ ind # Len(subjects) - 1
        THEN <<add_link(BroadName(ind + 1, subjects[ind + 2]), NextPage)>>
        ELSE <<>>)

\* the broad page's links without the "Next Subject" link of Step 5
BroadLinks_NoSkip(pages, ind, prev_pages) ==
    (IF ind > 0
     THEN <<add_link(prev_pages[Len(prev_pages)].name, PreviousPage)>> ELSE <<>>)
    \o <<add_link(pages[1].name, NextPage)>>

\* the links appended to the broad page of subject ind
BroadLinks(pages, ind, prev_pages) ==
    (IF ind > 0
     THEN <<add_link(prev_pages[Len(prev_pages)].name, PreviousPage)>> ELSE <<>>)
    \o <<add_link(pages[1].name, NextPage)>>
    \o (IF ind # Len(subjects) - 1
        THEN <<add_link(BroadName(ind + 1, subjects[ind + 2]), NextSubject)>>
        ELSE <<>>)

\* open(...,'w') for each page of pages, in order
RECURSIVE WriteAll(_, _)
WriteAll(fs, pages) ==
    IF pages = <<>> THEN fs
    ELSE WriteAll(WriteFile(fs, pages[1].name, pages[1].rows, pages[1].links),
                  Tail(pages))

\* one iteration of `for ind,s in enumerate(subjects)`
MainStep ==
    /\ prog = "main"
    /\ pc = "loop"
    /\ i < Len(subjects)
    /\ LET s == subjects[i + 1]
           broad_name == BroadName(i, s)
           sub_figs == FuncListing(s)
           broad_rows == make_broad_html(s, sub_figs)
           task_files == SortedByKey(taskfiles[i + 1])
       IN  \E pages \in {[k \in 1..Len(task_files) |->
                            make_task_html(s, sub_figs, task_files[k])]} :
           IF pages = <<>> \/ \E k \in 1..Len(pages) : pages[k] = NoPage
           THEN \* IndexError (after the pdb trap) or TypeError: the run aborts
                \* before this subject's files are written
                /\ pc' = "crashed"
                /\ UNCHANGED <<i, files, task_htmls>>
           ELSE \E linked \in {[k \in 1..Len(pages) |->
                                [pages[k] EXCEPT !.links =
                                    TaskLinks(pages, k, i, broad_name)]]} :
                    /\ files' = WriteAll(
                            WriteFile(files, broad_name, broad_rows,
                                      BroadLinks(pages, i, task_htmls)),
                            linked)
                    /\ task_htmls' = linked
                    /\ i' = i + 1
                    /\ pc' = pc
    /\ UNCHANGED <<prog, subjects, nofig, keywords, taskfiles, reversed, svg_tups,
                   html, page_num, missing_svg, task, map_tuples>>

MainReturn ==
    /\ prog = "main"
    /\ pc = "loop"
    /\ i = Len(subjects)
    /\ pc' = "done"
    /\ UNCHANGED <<prog, subjects, nofig, keywords, taskfiles, reversed, svg_tups,
                   i, html, page_num, files, missing_svg, task, map_tuples,
                   task_htmls>>

----------------------------------------------------------------------------
(* Initial states: the inputs of each entry point *)

Fresh ==
    /\ i = 0 /\ html = <<>> /\ page_num = 0 /\ files = <<>>
    /\ missing_svg = <<>> /\ map_tuples = <<>> /\ task_htmls = <<>>

\* a row list of n (filename, svg) tuples
RowList(n) == [k \in 1..n |-> <<Str(k), FigPath(Str(k), TaskFig(Str(k), Ses1, Rest, NoRun, KwSdc))>>]

InitFc ==
    /\ prog = "make_fc_html"
    /\ pc = "paginate"
    /\ \E n \in 0..MaxRows : svg_tups = RowList(n)
    /\ subjects = <<>> /\ nofig = {} /\ keywords = <<>> /\ taskfiles = <<>>
    /\ reversed = FALSE /\ task = <<>>
    /\ Fresh

\* make_anatomical_qc calls gen_anatomical_qc with each of the two keywords
InitAnat ==
    /\ prog = "gen_anatomical_qc"
    /\ pc = "loop"
    /\ \E n \in 0..MaxRows :
          /\ subjects = [k \in 1..n |-> Str(k)]
          /\ nofig \in {{}} \cup {{Str(k)} : k \in 1..n}
    /\ keywords \in {<<KwBrainmask>>, <<KwMni>>}
    /\ taskfiles = <<>> /\ reversed = FALSE /\ svg_tups = <<>> /\ task = <<>>
    /\ Fresh

\* the task files the dataset index lists for task tsk
FilesOfTask(tsk) ==
    {TaskFile(SubjectId(k), Ses1, tsk, r) :
        k \in 1..MaxSubjects, r \in (IF tsk = Rest THEN {NoRun, 1, 2} ELSE {NoRun})}

\* make_functional_qc calls gen_functional_qc per task and keyword list
InitFunc ==
    /\ prog = "gen_functional_qc"
    /\ pc = "loop"
    /\ task \in {Rest, Nback}
    /\ taskfiles \in DistinctSeqs(FilesOfTask(task), MaxTasks)
    /\ keywords \in {<<KwSdc>>, <<KwBbregister, KwCoreg>>}
    /\ reversed \in BOOLEAN
    /\ subjects = <<>> /\ nofig = {} /\ svg_tups = <<>>
    /\ Fresh

\* the task files the dataset index can list for subject k, in index order
FilesOfSubject(k) ==
    << TaskFile(SubjectId(k), Ses1, Rest, NoRun),
       TaskFile(SubjectId(k), Ses1, Rest, 1),
       TaskFile(SubjectId(k), Ses1, Rest, 2),
       TaskFile(SubjectId(k), Ses1, Nback, NoRun) >>

\* layout.get(subject=s, ...): the files picked by sel, in either order
Listed(k, sel, rev) ==
    LET all == FilesOfSubject(k)
        picked == {j \in 1..Len(all) : j \in sel}
        Pick(f) == \E j \in picked : all[j] = f
        l == SelectSeq(all, Pick)
    IN  IF rev THEN Reverse(l) ELSE l

Selections ==
    {sel \in SUBSET (1..Len(FilesOfSubject(1))) : Cardinality(sel) <= MaxTasks}

InitMain ==
    /\ prog = "main"
    /\ pc = "loop"
    /\ reversed \in BOOLEAN
    /\ \E n \in 0..MaxSubjects :
          /\ subjects = [k \in 1..n |-> SubjectId(k)]
          /\ \E sel \in [1..n -> Selections] :
                taskfiles = [k \in 1..n |-> Listed(k, sel[k], reversed)]
    /\ nofig = {} /\ keywords = <<>> /\ svg_tups = <<>> /\ task = <<>>
    /\ Fresh

Init == InitFc \/ InitAnat \/ InitFunc \/ InitMain

Next ==
    \/ FcStep \/ FcReturn
    \/ AnatStep \/ AnatReturn
    \/ FuncStep \/ FuncPaginate
    \/ MainStep \/ MainReturn

Spec == Init /\ [][Next]_vars

\* the paginated sequences alone
InitPages == InitFc \/ InitAnat
NextPages == FcStep \/ FcReturn \/ AnatStep \/ AnatReturn
SpecPages == InitPages /\ [][NextPages]_vars

\* the functional review and the chained review
InitReview == InitFunc \/ InitMain
NextReview ==
    \/ FuncStep \/ FuncPaginate \/ FcStep \/ FcReturn
    \/ MainStep \/ MainReturn
SpecReview == InitReview /\ [][NextReview]_vars

----------------------------------------------------------------------------
(* Properties of the paginated sequences *)

Paginating == prog \in {"make_fc_html", "gen_anatomical_qc"}

\* whether subject s has a figure for the keyword of the anatomical run
HasFigure(s) == KeywordMatches(keywords[1], AnatListing(s)) # <<>>

\* the rows handed to pagination: one per tuple, or one per subject that has
\* a matching figure, in input order
InputRows ==
    IF prog = "gen_anatomical_qc"
    THEN LET with == SelectSeq(subjects, HasFigure)
         IN  [k \in 1..Len(with) |->
                add_image_row(with[k],
                    FigPath(with[k], KeywordMatches(keywords[1], AnatListing(with[k]))[1]))]
    ELSE [k \in 1..Len(svg_tups) |-> add_image_row(svg_tups[k][1], svg_tups[k][2])]

RECURSIVE ConcatRows(_)
ConcatRows(fs) == IF fs = <<>> THEN <<>> ELSE Head(fs).rows \o ConcatRows(Tail(fs))

\* the numbered page files 0.html, 1.html, ... that exist
IsWritten(name) == \E k \in 1..Len(files) : files[k].name = name
PageFile(n) == files[CHOOSE k \in 1..Len(files) : files[k].name = HtmlName(Str(n))]
NumPages == Cardinality({n \in 0..Len(files) : IsWritten(HtmlName(Str(n)))})
HasLink(page, text, target) ==
    \E k \in 1..Len(page.links) : page.links[k] = add_link(target, text)
HasLinkText(page, text) ==
    \E k \in 1..Len(page.links) : page.links[k].text = text

CeilDiv(a, b) == (a + b - 1) \div b

\* C1: when a paginated run (make_fc_html, gen_anatomical_qc) has returned,
\* the rows of pages 0.html, 1.html, ... concatenated in page order are the
\* input rows, in order; nothing is dropped, the last row included.
C1_NothingLost ==
    (Paginating /\ pc = "done") =>
        /\ \A k \in 1..Len(files) : files[k].name = HtmlName(Str(k - 1))
        /\ ConcatRows(files) = InputRows

\* C2: a returned paginated run over n rows has written ceil(n/20) pages, no
\* page has more than 20 rows and every page but the last has exactly 20.
C2_PageCount ==
    (Paginating /\ pc = "done") =>
        /\ NumPages = CeilDiv(Len(InputRows), FIGSPERPAGE)
        /\ Len(files) = NumPages
        /\ \A k \in 1..Len(files) :
              /\ Len(files[k].rows) <= FIGSPERPAGE
              /\ k < Len(files) => Len(files[k].rows) = FIGSPERPAGE

\* C3: in a returned paginated run of N pages, page p has a "Next Page" link
\* to page p+1 exactly when p < N-1 and a "Previous Page" link to page p-1
\* exactly when p > 0, and it has no other link.
C3_NeighbourLinks ==
    (Paginating /\ pc = "done") =>
        \A p \in 0..(NumPages - 1) :
            IsWritten(HtmlName(Str(p))) =>
                LET page == PageFile(p)
                IN  /\ HasLinkText(page, NextPage) <=> p < NumPages - 1
                    /\ HasLinkText(page, PreviousPage) <=> p > 0
                    /\ \A k \in 1..Len(page.links) :
                          \/ page.links[k] = add_link(HtmlName(Str(p + 1)), NextPage)
                          \/ page.links[k] = add_link(HtmlName(Str(p - 1)), PreviousPage)

\* C4: after a complete run every link written into a page names a page file
\* written in that run.
C4_NoDanglingLink ==
    pc = "done" =>
        \A k \in 1..Len(files) : \A j \in 1..Len(files[k].links) :
            IsWritten(files[k].links[j].href)

----------------------------------------------------------------------------
(* Properties of the chained review (fast_qc_fmriprep.py main) *)

\* pages of the chain, as they lie in files: subject k's broad page, then
\* its task pages, then subject k+1's broad page, ...
BroadNameOf(k) == BroadName(k - 1, subjects[k])
IsBroadPage(p) == \E k \in 1..Len(subjects) : files[p].name = BroadNameOf(k)
SubjectAt(p) == Cardinality({q \in 1..p : IsBroadPage(q)})
BroadPos(k) == CHOOSE p \in 1..Len(files) : files[p].name = BroadNameOf(k)
\* i subjects have been handled and written
LastPos(k) == IF k < i THEN BroadPos(k + 1) - 1 ELSE Len(files)

ForwardTexts == {NextPage, NextSubject}
ForwardCount(page) ==
    Cardinality({k \in 1..Len(page.links) : page.links[k].text \in ForwardTexts})
BackwardCount(page) ==
    Cardinality({k \in 1..Len(page.links) : page.links[k].text = PreviousPage})
LinksTo(page, texts, target) ==
    \E k \in 1..Len(page.links) :
        page.links[k].href = target /\ page.links[k].text \in texts

\* C5 as stated: in the complete chain every page but the first has exactly
\* one "Previous" link and every page but the last has exactly one forward
\* link ("Next Page" or "Next Subject"); the first has no backward link and
\* the last no forward link.
C5_OneLinkEachWay ==
    (prog = "main" /\ pc = "done") =>
        \A p \in 1..Len(files) :
            /\ BackwardCount(files[p]) = (IF p = 1 THEN 0 ELSE 1)
            /\ ForwardCount(files[p]) = (IF p = Len(files) THEN 0 ELSE 1)

\* C5 amended: every written page but subject 0's broad page has exactly one
\* "Previous Page" link; a task page has exactly one forward link, except the
\* final task page of the last subject, which has none; the broad page of
\* every subject but the last has exactly two forward links, one "Next Page"
\* and one "Next Subject", and the last subject's broad page has one.
C5_LinkCounts ==
    prog = "main" =>
        \A p \in 1..Len(files) :
            /\ BackwardCount(files[p]) = (IF p = 1 THEN 0 ELSE 1)
            /\ IsBroadPage(p) =>
                  /\ ForwardCount(files[p]) =
                        (IF SubjectAt(p) = Len(subjects) THEN 1 ELSE 2)
                  /\ HasLinkText(files[p], NextPage)
                  /\ SubjectAt(p) # Len(subjects) => HasLinkText(files[p], NextSubject)
            /\ ~IsBroadPage(p) =>
                  ForwardCount(files[p]) =
                      (IF p = Len(files) /\ SubjectAt(p) = Len(subjects) THEN 0 ELSE 1)

\* a complete chain of two subjects whose first broad page has two forward links
C5_Witness ==
    /\ prog = "main" /\ pc = "done" /\ Len(subjects) = 2
    /\ Len(files) >= 4
    /\ ForwardCount(files[1]) = 2

\* the links C6 asks for at the boundaries of the handled subjects, with
\* `label` the text of the link from a subject's last task page to the next
\* subject's broad page
BoundaryLinks(label) ==
    \A k \in 1..i :
        LET broad == files[BroadPos(k)]
            first == files[BroadPos(k) + 1]
            last == files[LastPos(k)]
        IN  /\ BroadPos(k) < LastPos(k)
            /\ LinksTo(broad, ForwardTexts, first.name)
            /\ LinksTo(first, {PreviousPage}, broad.name)
            /\ k < Len(subjects) =>
                  /\ LinksTo(last, {label}, BroadNameOf(k + 1))
                  /\ ForwardCount(last) = 1
            /\ k > 1 => LinksTo(broad, {PreviousPage}, files[BroadPos(k) - 1].name)
            /\ k = 1 => BackwardCount(broad) = 0
            /\ k = Len(subjects) => ForwardCount(last) = 0

\* C6 as stated: each handled subject's broad page links forward to its first
\* task page, which links back to it; the last task page of subject k links
\* forward, as "Next Subject", to the broad page of subject k+1, which links
\* back to it; the first broad page has no "Previous" link and the last
\* subject's final task page has no forward link.
C6_NextSubjectFromLastTask == prog = "main" => BoundaryLinks(NextSubject)

\* C6 amended: as C6, but the link from the last task page of subject k to the
\* broad page of subject k+1 is labelled "Next Page"; the "Next Subject" link
\* to that page is the one on subject k's own broad page.
C6_BoundaryLinks ==
    prog = "main" =>
        /\ BoundaryLinks(NextPage)
        /\ \A k \in 1..i :
              k < Len(subjects) =>
                  LinksTo(files[BroadPos(k)], {NextSubject}, BroadNameOf(k + 1))

\* a complete chain where subject 0's last task page links to subject 1's
\* broad page and that page links back
C6_Witness ==
    /\ prog = "main" /\ pc = "done" /\ Len(subjects) = 2 /\ i = 2
    /\ LinksTo(files[LastPos(1)], {NextPage}, BroadNameOf(2))
    /\ LinksTo(files[BroadPos(2)], {PreviousPage}, files[LastPos(1)].name)
    /\ LastPos(1) > BroadPos(1) + 1

\* C7: the chained review never aborts; every subject handled has its broad
\* page written, and in a complete run the broad page of a subject with no
\* task page links to the next subject's broad page and no link dangles.
C7_ZeroTaskSubjectHandled ==
    prog = "main" =>
        /\ pc # "crashed"
        /\ \A k \in 1..i : IsWritten(BroadNameOf(k))
        /\ pc = "done" =>
              /\ i = Len(subjects)
              /\ \A k \in 1..Len(subjects) :
                    (taskfiles[k] = <<>> /\ k < Len(subjects)) =>
                        LinksTo(files[BroadPos(k)], ForwardTexts, BroadNameOf(k + 1))
              /\ \A p \in 1..Len(files) : \A j \in 1..Len(files[p].links) :
                    IsWritten(files[p].links[j].href)

----------------------------------------------------------------------------
(* Properties of figure matching *)

\* the underscore-delimited tokens of a figure file name
TokensOf(f) == Split(Split(f, ".")[1], "_")

\* the tokens a unit requires: subject, session, task
UnitTokens(bidsfile) ==
    {SubPfx \o bidsfile.entities.subject,
     SesPfx \o bidsfile.entities.session,
     TaskPfx \o bidsfile.entities.task}

\* the run token of a unit with a run, plain or zero-padded, is a token of f
RunTokenIn(bidsfile, f) ==
    "run" \in DOMAIN bidsfile.entities =>
        \/ InList(RunPfx \o Str(bidsfile.entities.run), TokensOf(f))
        \/ InList(RunPfx \o <<"0">> \o Str(bidsfile.entities.run), TokensOf(f))

TokenExact(bidsfile, f) ==
    /\ \A t \in UnitTokens(bidsfile) : InList(t, TokensOf(f))
    /\ RunTokenIn(bidsfile, f)

\* the task file a row was made for
FileOfTag(listed, tag) ==
    CHOOSE f \in {listed[k] : k \in 1..Len(listed)} : f.filename = tag

\* C8: every figure matched to a task unit carries each of the unit's tokens
\* (subject, session, task, run) as one of its underscore-delimited tokens:
\* in the tuples gen_functional_qc takes from get_func_svg, and in the figures
\* make_task_html puts on a task page.
C8_TokenExact ==
    /\ prog = "gen_functional_qc" =>
          \A k \in 1..Len(map_tuples) :
              TokenExact(FileOfTag(taskfiles, map_tuples[k][1]), map_tuples[k][2].file)
    /\ prog = "main" =>
          \A p \in 1..Len(files) :
              ~IsBroadPage(p) =>
                  LET row == files[p].rows[1]
                      unit == FileOfTag(taskfiles[SubjectAt(p)], row.tag)
                  IN  \A j \in 1..Len(row.svgs) : TokenExact(unit, row.svgs[j].file)

\* whether no figure of the listing is accepted for task file f and keyword kw
NoFuncMatch(f, kw) ==
    \A k \in 1..Len(FuncListing(f.entities.subject)) :
        ~FuncSvgAccepts(f.entities.subject, f.entities.session, task, RunOf(f), kw,
                        FuncListing(f.entities.subject)[k])

Unmatched(f) == NoFuncMatch(f, keywords[1])
NoFigure(s) == ~HasFigure(s)
HasRowTagged(tag) ==
    \E p \in 1..Len(files) : \E r \in 1..Len(files[p].rows) : files[p].rows[r].tag = tag

\* C9: a unit with no matching figure never aborts the run; when the run has
\* returned, the missing list holds exactly the units with no match, in
\* order, and every other unit has its row on a written page.
C9_MissingMatchNonFatal ==
    /\ prog = "gen_anatomical_qc" =>
          /\ pc # "crashed"
          /\ pc = "done" =>
                /\ missing_svg = SelectSeq(subjects, NoFigure)
                /\ \A k \in 1..Len(subjects) :
                      HasFigure(subjects[k]) => HasRowTagged(subjects[k])
    /\ prog = "gen_functional_qc" =>
          /\ pc # "crashed"
          /\ pc = "done" =>
                /\ missing_svg = SelectSeq(taskfiles, Unmatched)
                /\ \A k \in 1..Len(taskfiles) :
                      ~Unmatched(taskfiles[k]) => HasRowTagged(taskfiles[k].filename)

----------------------------------------------------------------------------
(* Properties of task units without a run entity *)

\* the ordering key of the claim: (task, run), run 1 when the file has none
KeyRunOne(f) ==
    <<f.entities.task, IF "run" \in DOMAIN f.entities THEN f.entities.run ELSE 1>>

IndexIn(listed, f) == CHOOSE k \in 1..Len(listed) : listed[k] = f

\* the task file shown on the j-th task page of handled subject k
TaskUnitAt(k, j) == FileOfTag(taskfiles[k], files[BroadPos(k) + j].rows[1].tag)

\* the task pages of every handled subject are one page per listed task
\* file, in ascending key order, files of equal key in listing order, each
\* page linked to the next and back
ChainedInKeyOrder ==
    \A k \in 1..i :
        LET n == LastPos(k) - BroadPos(k)
        IN  /\ n = Len(taskfiles[k])
            /\ \A a, b \in 1..n :
                  a < b =>
                      /\ ~KeyLess(KeyRunOne(TaskUnitAt(k, b)), KeyRunOne(TaskUnitAt(k, a)))
                      /\ KeyRunOne(TaskUnitAt(k, a)) = KeyRunOne(TaskUnitAt(k, b)) =>
                            IndexIn(taskfiles[k], TaskUnitAt(k, a))
                                < IndexIn(taskfiles[k], TaskUnitAt(k, b))
            /\ \A a \in 1..(n - 1) :
                  /\ LinksTo(files[BroadPos(k) + a], {NextPage},
                             files[BroadPos(k) + a + 1].name)
                  /\ LinksTo(files[BroadPos(k) + a + 1], {PreviousPage},
                             files[BroadPos(k) + a].name)

\* the figures of the listing of f's subject that carry the subject, session,
\* task and figure-type tokens, whatever their run token
FourTokenFigures(f, figtype) ==
    LET Carries(fig) ==
            \A t \in UnitTokens(f) \cup {figtype} : InList(t, TokensOf(fig))
    IN  SelectSeq(FuncListing(f.entities.subject), Carries)

\* the task files gen_functional_qc has got past
FuncHandled == IF pc \in {"loop", "crashed"} THEN i ELSE Len(taskfiles)

\* a task file with no run entity is matched to the first figure carrying the
\* four tokens, and is stopped on only when no figure carries them
NoRunMatchedOnFourTokens ==
    /\ \A j \in 1..FuncHandled :
          "run" \notin DOMAIN taskfiles[j].entities =>
              LET figs == FourTokenFigures(taskfiles[j], keywords[1])
              IN  /\ figs # <<>>
                  /\ \E m \in 1..Len(map_tuples) :
                        map_tuples[m] = <<taskfiles[j].filename,
                                          FigPath(taskfiles[j].entities.subject, figs[1])>>
    /\ (pc = "crashed" /\ "run" \notin DOMAIN taskfiles[i + 1].entities) =>
          FourTokenFigures(taskfiles[i + 1], keywords[1]) = <<>>

----------------------------------------------------------------------------
(* Order of building, linking and writing *)

\* the number of items the running loop goes through
LoopLength == IF pc = "paginate" THEN Len(svg_tups) ELSE Len(subjects)

\* a page file exists while items of the chain are still to be handled
WrittenBeforeAllBuilt ==
    /\ prog \in {"make_fc_html", "gen_anatomical_qc", "main"}
    /\ pc \in {"paginate", "loop"}
    /\ files # <<>>
    /\ i < LoopLength

\* C11 as stated: no page file of a chain is written while a later page of the
\* chain is not yet built, i.e. as long as the loop over the chain's items
\* (rows, subjects) is not exhausted no page file exists.
C11_AllBuiltBeforeWritten == ~WrittenBeforeAllBuilt

\* a step of a pagination loop that writes: one new file, the next page
\* number, holding the rows buffered before the step and its footer links;
\* the row of the current index is built after the write and opens the next
\* buffer
PaginationWrite ==
    LET new == files'[Len(files')]
    IN  /\ Len(files') = Len(files) + 1
        /\ page_num = Len(files)
        /\ new = [name |-> HtmlName(Str(page_num)), rows |-> html,
                  links |-> Footer(i, LoopLength, page_num)]
        /\ Len(html') = 1
        /\ i' = i + 1

\* a step of main that writes: the broad page of the current subject and then
\* its task pages, as built and linked in this step, every page with its
\* links in it; no file of a later subject exists before or after
SubjectWrite ==
    LET s == subjects[i + 1]
        base == Len(files)
    IN  /\ Len(files') = base + 1 + Len(task_htmls')
        /\ files'[base + 1].name = BroadName(i, s)
        /\ files'[base + 1].links # <<>>
        /\ \A k \in 1..Len(task_htmls') :
              /\ files'[base + 1 + k] = task_htmls'[k]
              /\ task_htmls'[k].links # <<>>
        /\ \A k \in (base + 1)..Len(files') : Contains(SubPfx \o s, files'[k].name)
        /\ \A k \in 1..Len(files') : \A j \in (i + 2)..Len(subjects) :
              ~Contains(SubPfx \o subjects[j], files'[k].name)

WritingStep ==
    files' # files =>
        /\ Len(files') > Len(files)
        /\ SubSeq(files', 1, Len(files)) = files
        /\ IF prog = "main" THEN SubjectWrite ELSE PaginationWrite

\* C11 (amended): pages are written incrementally. Every step that writes
\* keeps the files already written as they are; a pagination loop writes one
\* page at a time in page-number order, with the rows built so far and its
\* links, before the rows of later pages are built; main writes subject by
\* subject, the pages of a subject built and linked before its first file is
\* written and before any page of a later subject is built.
C11_WrittenIncrementally == [][WritingStep]_vars

\* the chained review has written the first subject and has more to handle
C11_Witness ==
    /\ prog = "main"
    /\ pc = "loop"
    /\ 0 < i /\ i < Len(subjects)
    /\ Len(files) = 1 + Len(task_htmls)
    /\ Len(task_htmls) > 1

====
